---- MODULE Spec2Model ----
(***************************************************************************)
(* A model of beacon_chain/src/state_advance_timer.rs: the single-flight   *)
(* Lock, the state_advance_timer loop, the blocking worker it spawns and   *)
(* the advance_head procedure the worker runs, together with the parts of  *)
(* the chain (slot clock, head, fork choice, store, caches) that           *)
(* advance_head calls.                                                     *)
(*                                                                         *)
(* Time is counted in quarters of a slot.  A block root is identified with *)
(* the slot of its block (one block per slot), and a state with the pair   *)
(* of its latest block and its slot.                                       *)
(***************************************************************************)
EXTENDS Integers, Sequences, FiniteSets, TLC

VARIABLES
    time,            \* wall clock, in quarters of a slot
    lpc,             \* position of the state_advance_timer loop
    wakeAt,          \* the time at which the loop's sleep ends
    afterSleep,      \* what follows the sleep: "dispatch" or "continue"
    lastWake,        \* what the loop did at its last wake-up
    is_running,      \* the AtomicBool of the Lock
    workers,         \* the spawned blocking tasks, each running advance_head
    head,            \* block root of the canonical head (head_info)
    pending,         \* the head the next fork choice run will establish
    store,           \* the states held by the store
    proposer_cache,  \* beacon_proposer_cache: (epoch, decision block) keys
    shuffling_cache, \* shuffling_cache: (shuffling epoch, decision block) keys
    attester_cache,  \* states offered to attester_cache.maybe_cache_state
    lockTrace,       \* calls made on a Lock by a direct caller, with results
    lastWrite,       \* the last successful put_state of advance_head
    envSteps,        \* number of steps taken by the rest of the node
    calls,           \* number of direct calls of advance_head made so far
    db,              \* the database the database manager opens
    prune            \* a run of the database manager's prune_states

vars == <<time, lpc, wakeAt, afterSleep, lastWake, is_running, workers, head,
          pending, store, proposer_cache, shuffling_cache, attester_cache,
          lockTrace, lastWrite, envSteps, calls, db, prune>>

pruneVars == <<db, prune>>
loopVars  == <<lpc, wakeAt, afterSleep, lastWake>>
chainVars == <<head, pending, store>>
cacheVars == <<proposer_cache, shuffling_cache, attester_cache>>
histVars  == <<lastWrite, envSteps, calls>>

(***************************************************************************)
(* Bounds of the model and constants of the program.                       *)
(***************************************************************************)
MAX_ADVANCE_DISTANCE == 4

VALIDATOR_MONITOR_HISTORIC_EPOCHS == 4

\* quarters of a slot per slot: the loop computes (slot_duration / 4) * 3
QuartersPerSlot == 4

\* T::EthSpec::slots_per_epoch(), kept small
SlotsPerEpoch == 2

\* the clock starts in a slot at which a head at slot 0 is out of distance
StartSlot == MAX_ADVANCE_DISTANCE + 1

\* number of slots the clock runs through after StartSlot
RunSlots == 2

\* number of steps the rest of the node takes
MaxEnvSteps == 1

\* number of direct calls of advance_head
MaxCalls == 2

\* worker tasks the executor can run at once
MaxWorkers == 2

\* longest sequence of calls made on a Lock by a direct caller
MaxLockCalls == 6

\* networks a genesis state can belong to
Networks == 2

\* most historic states the freezer database holds
MaxHistoric == 2

MaxSlot == StartSlot + RunSlots
MaxTime == MaxSlot * QuartersPerSlot + (QuartersPerSlot - 1)
Workers == 1..MaxWorkers

slot_duration == QuartersPerSlot

None == 0 - 1

(***************************************************************************)
(* The slot clock and epochs.                                              *)
(***************************************************************************)
SlotOf(t) == t \div QuartersPerSlot

duration_to_next_slot(t) == (SlotOf(t) + 1) * QuartersPerSlot - t

epoch(slot) == slot \div SlotsPerEpoch

(***************************************************************************)
(* Lock: fetch_or(true) returns the previous value and leaves the flag     *)
(* set; store(false) clears it.                                            *)
(***************************************************************************)
Lock_new == FALSE

FetchOr(flag, v) == [ret |-> flag, new |-> flag \/ v]

\* fetch_or(false): the flag is read but never set
LockFetchOrFalse(flag) == FetchOr(flag, FALSE)

\* the value after the call is returned in place of the value before it
LockReturnsNew(flag) == [ret |-> FetchOr(flag, TRUE).new, new |-> TRUE]

\* fetch_xor(true): a call that finds the flag set clears it
LockFetchXor(flag) == [ret |-> flag, new |-> ~flag]

Lock_lock(flag) == FetchOr(flag, TRUE)

\* a lock() that waits, as a mutex does, until the flag is clear
Lock_lock_waits(flag) == ~flag

\* lock() is one atomic fetch_or: it returns at once, whatever the flag
Lock_lock_returns(flag) == TRUE

Lock_unlock(flag) == FALSE

(***************************************************************************)
(* States, and the store's lookup of the state of a block.                 *)
(***************************************************************************)
State(block, slot) == [block |-> block, slot |-> slot]

StatesOf(block) == {st \in store : st.block = block}

\* the state root of a head block: the root of its un-advanced state
StateRootOf(block) == State(block, block)

\* get_advanced_state: the most advanced state held for the block, if any
get_advanced_state(block_root, target_slot, state_root) ==
    IF StatesOf(block_root) = {}
    THEN None
    ELSE CHOOSE s \in {st.slot : st \in StatesOf(block_root)} :
            \A st \in StatesOf(block_root) : st.slot <= s

(***************************************************************************)
(* The result of advance_head: Ok, or one of the variants of Error.        *)
(***************************************************************************)
Result(kind, root, cur, hs, err) ==
    [kind |-> kind, block_root |-> root, current_slot |-> cur,
     head_slot |-> hs, err |-> err]

NoResult == Result("none", None, None, None, "")
Ok == Result("Ok", None, None, None, "")
ErrBeaconChain(e) == Result("BeaconChain", None, None, None, e)
ErrBeaconState == Result("BeaconState", None, None, None, "")
\* the store's error with a fault: swallowed, the call reports success
StoreErrorIgnored == Ok

ErrStore == Result("Store", None, None, None, "")
\* the error of a missing pre-state with a fault: the wrong variant
HeadMissingAsAlreadyAdvanced(root) ==
    Result("StateAlreadyAdvanced", root, None, None, "")

HeadMissingFromSnapshotCache(root) ==
    Result("HeadMissingFromSnapshotCache", root, None, None, "")
MaxDistanceExceeded(cur, hs) == Result("MaxDistanceExceeded", None, cur, hs, "")
StateAlreadyAdvanced(root) == Result("StateAlreadyAdvanced", root, None, None, "")
BadStateSlot(st, cur) == Result("BadStateSlot", None, cur, st, "")

\* an entry of a worker's record of the calls advance_head has made
Event(op, root, slot, ok) == [op |-> op, root |-> root, slot |-> slot, ok |-> ok]

IdleWorker ==
    [pc |-> "idle", current_slot |-> None, head_slot |-> None,
     head_block_root |-> None, pre_slot |-> None, state_slot |-> None,
     initial_epoch |-> None, summary |-> FALSE, result |-> NoResult,
     log |-> <<>>]

(***************************************************************************)
(* The decisions advance_head takes, and the one-slot transition.          *)
(***************************************************************************)
BlockSlot(block_root) == block_root

\* the distance check with its threshold one slot too strict, and one slot
\* too loose
TooFarOffByOne(head_slot, current_slot) ==
    head_slot + MAX_ADVANCE_DISTANCE <= current_slot

TooFarLoose(head_slot, current_slot) ==
    head_slot + MAX_ADVANCE_DISTANCE + 1 < current_slot

TooFar(head_slot, current_slot) ==
    head_slot + MAX_ADVANCE_DISTANCE < current_slot

\* the slot check with a fault: both comparisons one slot early; without the
\* already-advanced arm; advancing an already advanced state again;
\* advancing a state that is behind the current slot
SlotCheckShifted(state_slot, current_slot) ==
    IF state_slot = current_slot THEN "already"
    ELSE IF state_slot # current_slot - 1 THEN "bad"
    ELSE "advance"

SlotCheckNoAlready(state_slot, current_slot) ==
    IF state_slot # current_slot THEN "bad" ELSE "advance"

SlotCheckAgain(state_slot, current_slot) ==
    IF state_slot # current_slot /\ state_slot # current_slot + 1 THEN "bad"
    ELSE "advance"

SlotCheckCatchUp(state_slot, current_slot) ==
    IF state_slot = current_slot + 1 THEN "already"
    ELSE IF state_slot > current_slot THEN "bad"
    ELSE "advance"

SlotCheck(state_slot, current_slot) ==
    IF state_slot = current_slot + 1 THEN "already"
    ELSE IF state_slot # current_slot THEN "bad"
    ELSE "advance"

\* per_slot_processing: the state one slot later, and whether the
\* transition yields an epoch summary (it does on entering a new epoch)
per_slot_processing(slot) ==
    [slot |-> slot + 1, summary |-> (slot + 1) % SlotsPerEpoch = 0]

\* the recency guard with a fault: the operands of >= are exchanged
NotifyMonitorReversed(state_epoch, current_slot) ==
    epoch(current_slot) + VALIDATOR_MONITOR_HISTORIC_EPOCHS <= state_epoch

\* lines 252-253: only notify the validator monitor for recent blocks
NotifyMonitor(state_epoch, current_slot) ==
    state_epoch + VALIDATOR_MONITOR_HISTORIC_EPOCHS >= epoch(current_slot)

\* the epoch test with a fault: the caches are primed at every slot
EpochChangedAlways(initial_epoch, state_epoch) == TRUE

\* the epoch test with a fault: <= in place of <
EpochChangedOrEqual(initial_epoch, state_epoch) == initial_epoch <= state_epoch

EpochChanged(initial_epoch, state_epoch) == initial_epoch < state_epoch

\* AttestationShufflingId::new(head_block_root, &state, RelativeEpoch::Next)
ShufflingId(block_root, state_slot) == <<epoch(state_slot) + 1, block_root>>

(***************************************************************************)
(* advance_head, one action per call it makes on the chain.                *)
(***************************************************************************)
Return(w, res) ==
    workers' = [workers EXCEPT ![w] = [@ EXCEPT !.pc = "done", !.result = res]]

\* lines 185-201: the current slot, the head slot and the distance check
AdvanceHead_Check(w) ==
    /\ workers[w].pc = "start"
    /\ \/ Return(w, ErrBeaconChain("UnableToReadSlot"))
       \/ LET cur == SlotOf(time)
              hs == BlockSlot(head)
          IN  workers' = [workers EXCEPT ![w] =
                  IF TooFar(hs, cur)
                  THEN [@ EXCEPT !.pc = "done", !.current_slot = cur,
                                 !.head_slot = hs,
                                 !.result = MaxDistanceExceeded(cur, hs)]
                  ELSE [@ EXCEPT !.pc = "fork_choice", !.current_slot = cur,
                                 !.head_slot = hs]]
    /\ UNCHANGED <<time, loopVars, is_running, chainVars, cacheVars,
                   lockTrace, pruneVars, histVars>>

\* the failure of fork choice with a fault: the error is dropped and the
\* procedure goes on to fetch the pre-state
ForkChoiceErrorIgnored(W) == [W EXCEPT !.pc = "fetch"]

\* line 208: fork_choice()? returns the error
ForkChoiceFailed(W) ==
    [W EXCEPT !.pc = "done", !.result = ErrBeaconChain("ForkChoiceError")]

\* line 208: beacon_chain.fork_choice()
AdvanceHead_ForkChoice(w) ==
    /\ workers[w].pc = "fork_choice"
    /\ \/ /\ workers' = [workers EXCEPT ![w] = ForkChoiceFailed(@)]
          /\ UNCHANGED head
       \/ /\ head' = pending
          /\ workers' = [workers EXCEPT ![w] =
                [@ EXCEPT !.pc = "fetch",
                          !.log = Append(@, Event("fork_choice", None, None, TRUE))]]
    /\ UNCHANGED <<time, loopVars, is_running, pending, store, cacheVars,
                   lockTrace, pruneVars, histVars>>

\* the head's block root with a fault: the head read for the distance check
\* is used again after fork choice
StaleHeadBlockRoot(W) == W.head_slot

\* lines 210-211: head_info() is read again after fork choice
HeadBlockRoot(W) == head

\* the initial epoch with a fault: read from the state after the transition
InitialEpochAfterTransition(slot) == epoch(slot + 1)

\* line 234: initial_epoch = state.current_epoch(), before the transition
InitialEpoch(slot) == epoch(slot)

\* lines 210-234: the head after fork choice, its pre-state, the slot check
AdvanceHead_Fetch(w) ==
    /\ workers[w].pc = "fetch"
    /\ \/ Return(w, ErrBeaconChain("HeadInfo"))
       \/ LET head_block_root == HeadBlockRoot(workers[w])
              cur == workers[w].current_slot
              got == get_advanced_state(head_block_root, cur,
                                        StateRootOf(head_block_root))
              seen == [workers[w] EXCEPT
                          !.head_block_root = head_block_root,
                          !.pre_slot = got,
                          !.log = Append(@, Event("get_advanced_state",
                                                  head_block_root, cur, TRUE))]
          IN  \/ workers' = [workers EXCEPT ![w] =
                    [@ EXCEPT !.pc = "done", !.result = ErrStore,
                              !.log = Append(@, Event("get_advanced_state",
                                                 head_block_root, cur, FALSE))]]
              \/ workers' = [workers EXCEPT ![w] =
                    IF got = None
                    THEN [seen EXCEPT !.pc = "done",
                            !.result = HeadMissingFromSnapshotCache(head_block_root)]
                    ELSE IF SlotCheck(got, cur) = "already"
                    THEN [seen EXCEPT !.pc = "done",
                            !.result = StateAlreadyAdvanced(head_block_root)]
                    ELSE IF SlotCheck(got, cur) = "bad"
                    THEN [seen EXCEPT !.pc = "done",
                            !.result = BadStateSlot(got, cur)]
                    ELSE [seen EXCEPT !.pc = "transition",
                            !.state_slot = got,
                            !.initial_epoch = InitialEpoch(got)]]
    /\ UNCHANGED <<time, loopVars, is_running, chainVars, cacheVars,
                   lockTrace, pruneVars, histVars>>

\* the errors of the summary's observers with a fault: returned with ?
SummaryErrorPropagated(metrics_ok, monitor_ok) == ~(metrics_ok /\ monitor_ok)

\* lines 243-267: an error of observe_metrics or process_validator_statuses
\* is logged in an if let Err(e) and not returned
SummaryErrorReturned(metrics_ok, monitor_ok) == FALSE

\* lines 233-268: the one-slot transition, the summary's metrics, the monitor
AdvanceHead_Transition(w) ==
    /\ workers[w].pc = "transition"
    /\ \/ workers' = [workers EXCEPT ![w] =
             [@ EXCEPT !.pc = "done",
                       !.result = ErrBeaconChain("SlotProcessingError"),
                       !.log = Append(@, Event("per_slot_processing", None,
                                               workers[w].state_slot, FALSE))]]
       \/ \E metrics_ok \in BOOLEAN, monitor_ok \in BOOLEAN :
             LET W == workers[w]
                 post == per_slot_processing(W.state_slot)
                 l1 == Append(W.log, Event("per_slot_processing", None,
                                           W.state_slot, TRUE))
                 l2 == IF post.summary
                       THEN Append(l1, Event("observe_metrics", None, None,
                                             metrics_ok))
                       ELSE l1
                 l3 == IF post.summary
                          /\ NotifyMonitor(epoch(post.slot), W.current_slot)
                       THEN Append(l2, Event("process_validator_statuses", None,
                                             epoch(post.slot), monitor_ok))
                       ELSE l2
             IN  /\ post.summary \/ (metrics_ok /\ monitor_ok)
                 /\ workers' = [workers EXCEPT ![w] =
                       IF SummaryErrorReturned(metrics_ok, monitor_ok)
                       THEN [@ EXCEPT !.pc = "done", !.state_slot = post.slot,
                                      !.summary = post.summary, !.log = l3,
                                      !.result = ErrBeaconChain("EpochSummary")]
                       ELSE [@ EXCEPT !.pc = "build", !.state_slot = post.slot,
                                      !.summary = post.summary, !.log = l3]]
    /\ UNCHANGED <<time, loopVars, is_running, chainVars, cacheVars,
                   lockTrace, pruneVars, histVars>>

\* the failure of the second build_committee_cache with a fault: the error
\* is dropped and the procedure goes on to the caches
BuildNextUnchecked(W) ==
    [W EXCEPT !.pc = IF W.initial_epoch < epoch(W.state_slot)
                     THEN "proposer" ELSE "attester",
              !.log = Append(@, Event("build_committee_cache", None,
                                      epoch(W.state_slot), TRUE))]

\* lines 283-285: build_committee_cache(RelativeEpoch::Next) fails, after
\* the cache of the current epoch was built
BuildNextFailed(W) ==
    [W EXCEPT !.pc = "done",
              !.result = ErrBeaconChain("CommitteeCacheNext"),
              !.log = Append(@, Event("build_committee_cache", None,
                                      epoch(W.state_slot), TRUE))]

\* lines 278-289: the committee caches of the state, and the epoch test
AdvanceHead_Build(w) ==
    /\ workers[w].pc = "build"
    /\ LET W == workers[w]
           cur == Event("build_committee_cache", None, epoch(W.state_slot), TRUE)
           nxt == Event("build_committee_cache", None, epoch(W.state_slot) + 1, TRUE)
       IN  \/ Return(w, ErrBeaconChain("CommitteeCacheCurrent"))
           \/ workers' = [workers EXCEPT ![w] = BuildNextFailed(W)]
           \/ workers' = [workers EXCEPT ![w] =
                 [@ EXCEPT !.pc = IF EpochChanged(W.initial_epoch,
                                                  epoch(W.state_slot))
                                  THEN "proposer" ELSE "attester",
                           !.log = Append(Append(@, cur), nxt)]]
    /\ UNCHANGED <<time, loopVars, is_running, chainVars, cacheVars,
                   lockTrace, pruneVars, histVars>>

\* lines 294-305: beacon_proposer_cache.insert
AdvanceHead_Proposer(w) ==
    /\ workers[w].pc = "proposer"
    /\ \/ /\ Return(w, ErrBeaconChain("ProposerCache"))
          /\ UNCHANGED proposer_cache
       \/ LET W == workers[w]
          IN  /\ proposer_cache' = proposer_cache \cup
                    {<<epoch(W.state_slot), W.head_block_root>>}
              /\ workers' = [workers EXCEPT ![w] =
                    [@ EXCEPT !.pc = "shuffling",
                              !.log = Append(@, Event("proposer_insert",
                                        W.head_block_root, epoch(W.state_slot),
                                        TRUE))]]
    /\ UNCHANGED <<time, loopVars, is_running, chainVars, shuffling_cache,
                   attester_cache, lockTrace, pruneVars, histVars>>

\* the timeout of the shuffling cache's lock with a fault: the insert is
\* skipped and the procedure goes on
LockTimeoutSkipsInsert(W) ==
    [W EXCEPT !.pc = "attester",
              !.log = Append(@, Event("try_write_for", W.head_block_root,
                                      epoch(W.state_slot) + 1, FALSE))]

\* lines 314-316: try_write_for(ATTESTATION_CACHE_LOCK_TIMEOUT) gives None
\* and ok_or(AttestationCacheLockTimeout)? returns
LockTimeout(W) ==
    [W EXCEPT !.pc = "done",
              !.result = ErrBeaconChain("AttestationCacheLockTimeout"),
              !.log = Append(@, Event("try_write_for", W.head_block_root,
                                      epoch(W.state_slot) + 1, FALSE))]

\* lines 308-318: the shuffling id and shuffling_cache.insert
AdvanceHead_Shuffling(w) ==
    /\ workers[w].pc = "shuffling"
    /\ \/ /\ Return(w, ErrBeaconChain("ShufflingId"))
          /\ UNCHANGED shuffling_cache
       \/ /\ workers' = [workers EXCEPT ![w] = LockTimeout(@)]
          /\ UNCHANGED shuffling_cache
       \/ LET W == workers[w]
              id == ShufflingId(W.head_block_root, W.state_slot)
          IN  /\ shuffling_cache' = shuffling_cache \cup {id}
              /\ workers' = [workers EXCEPT ![w] =
                    [@ EXCEPT !.pc = "attester",
                              !.log = Append(@, Event("shuffling_insert",
                                                      id[2], id[1], TRUE))]]
    /\ UNCHANGED <<time, loopVars, is_running, chainVars, proposer_cache,
                   attester_cache, lockTrace, pruneVars, histVars>>

\* lines 331-334: attester_cache.maybe_cache_state
AdvanceHead_Attester(w) ==
    /\ workers[w].pc = "attester"
    /\ \/ /\ Return(w, ErrBeaconChain("AttesterCache"))
          /\ UNCHANGED attester_cache
       \/ LET W == workers[w]
          IN  /\ attester_cache' = attester_cache \cup
                    {State(W.head_block_root, W.state_slot)}
              /\ workers' = [workers EXCEPT ![w] =
                    [@ EXCEPT !.pc = "persist",
                              !.log = Append(@, Event("maybe_cache_state",
                                        W.head_block_root, W.state_slot, TRUE))]]
    /\ UNCHANGED <<time, loopVars, is_running, chainVars, proposer_cache,
                   shuffling_cache, lockTrace, pruneVars, histVars>>

\* lines 336-350: the state's root and store.put_state
AdvanceHead_Persist(w) ==
    /\ workers[w].pc = "persist"
    /\ \/ /\ Return(w, ErrBeaconState)
          /\ UNCHANGED <<store, histVars>>
       \/ /\ Return(w, ErrStore)
          /\ UNCHANGED <<store, histVars>>
       \/ LET W == workers[w]
          IN  /\ store' = store \cup {State(W.head_block_root, W.state_slot)}
              /\ lastWrite' = [current_slot |-> W.current_slot,
                               block_root |-> W.head_block_root,
                               slot |-> W.state_slot, env |-> envSteps,
                               call |-> calls]
              /\ UNCHANGED <<envSteps, calls>>
              /\ workers' = [workers EXCEPT ![w] =
                    [@ EXCEPT !.pc = "done", !.result = Ok,
                              !.log = Append(@, Event("put_state",
                                        W.head_block_root, W.state_slot, TRUE))]]
    /\ UNCHANGED <<time, loopVars, is_running, head, pending, cacheVars,
                   lockTrace, pruneVars>>

AdvanceHead(w) ==
    \/ AdvanceHead_Check(w)
    \/ AdvanceHead_ForkChoice(w)
    \/ AdvanceHead_Fetch(w)
    \/ AdvanceHead_Transition(w)
    \/ AdvanceHead_Build(w)
    \/ AdvanceHead_Proposer(w)
    \/ AdvanceHead_Shuffling(w)
    \/ AdvanceHead_Attester(w)
    \/ AdvanceHead_Persist(w)

(***************************************************************************)
(* The blocking task spawned by the timer: advance_head, the log of its    *)
(* result, and the unlock.                                                 *)
(***************************************************************************)
\* the unlock with a fault: skipped when advance_head returned an error
UnlockAfterOkOnly(result, flag) ==
    IF result.kind = "Ok" THEN Lock_unlock(flag) ELSE flag

\* the unlock with a fault: left out of the task
UnlockNever(result, flag) == flag

UnlockAfter(result, flag) == Lock_unlock(flag)

\* lines 137-168: the match on the result, then is_running.unlock()
Worker_Finish(w) ==
    /\ workers[w].pc = "done"
    /\ is_running' = UnlockAfter(workers[w].result, is_running)
    /\ workers' = [workers EXCEPT ![w] = IdleWorker]
    /\ UNCHANGED <<time, loopVars, chainVars, cacheVars, lockTrace, pruneVars,
                   histVars>>

(***************************************************************************)
(* The state_advance_timer loop.                                           *)
(***************************************************************************)
IdleWorkers == {w \in Workers : workers[w].pc = "idle"}

InFlight == Workers \ IdleWorkers

FirstIdle == CHOOSE w \in IdleWorkers : \A v \in IdleWorkers : w <= v

\* the sleep with a fault: the slot divided by 4 * 3
SleepForTwelfth(t) == duration_to_next_slot(t) + slot_duration \div (4 * 3)

SleepFor(t) == duration_to_next_slot(t) + (slot_duration \div 4) * 3

\* the sleep after a clock error with a fault: the offset of the trigger in
\* place of the slot
SleepOnClockErrorOffset == (slot_duration \div 4) * 3

\* line 125: sleep(slot_duration)
SleepOnClockError == slot_duration

\* lines 120-128: the sleep to the tail of the next slot, or one slot on a
\* clock error
Timer_Sleep ==
    /\ lpc = "top"
    /\ \/ /\ wakeAt' = time + SleepFor(time)
          /\ afterSleep' = "dispatch"
       \/ /\ wakeAt' = time + SleepOnClockError
          /\ afterSleep' = "continue"
    /\ lpc' = "sleeping"
    /\ UNCHANGED <<time, lastWake, is_running, workers, chainVars,
                   cacheVars, lockTrace, pruneVars, histVars>>

\* the test of lock()'s result with a fault: the task is spawned regardless
SpawnAlways(was_locked) == TRUE

SpawnIf(was_locked) == ~was_locked

\* lines 126-178: after the sleep, continue on a clock error, else take the
\* lock and spawn the blocking task if the lock was free
Timer_Wake ==
    /\ lpc = "sleeping"
    /\ time >= wakeAt
    /\ lpc' = "top"
    /\ \/ /\ afterSleep = "continue"
          /\ lastWake' = "clock_error"
          /\ UNCHANGED <<is_running, workers>>
       \/ /\ afterSleep = "dispatch"
          /\ Lock_lock_returns(is_running)
          /\ LET r == Lock_lock(is_running)
             IN  /\ is_running' = r.new
                 /\ IF SpawnIf(r.ret)
                    THEN /\ IdleWorkers # {}
                         /\ workers' = [workers EXCEPT ![FirstIdle] =
                               [IdleWorker EXCEPT !.pc = "start"]]
                         /\ lastWake' = "spawned"
                    ELSE /\ lastWake' = "overloaded"
                         /\ UNCHANGED workers
    /\ UNCHANGED <<time, wakeAt, afterSleep, chainVars, cacheVars,
                   lockTrace, pruneVars, histVars>>

Min(a, b) == IF a <= b THEN a ELSE b

\* the clock advances while the loop sleeps, to the next slot boundary or to
\* the end of the sleep: the times at which a reading of the clock changes
Tick ==
    /\ lpc = "sleeping"
    /\ time < wakeAt
    /\ Min(wakeAt, time + duration_to_next_slot(time)) <= MaxTime
    /\ time' = Min(wakeAt, time + duration_to_next_slot(time))
    /\ UNCHANGED <<loopVars, is_running, workers, chainVars, cacheVars,
                   lockTrace, pruneVars, histVars>>

(***************************************************************************)
(* The rest of the node: block import, fork choice run by others, the      *)
(* state cache evicting a state, another path advancing the head state.    *)
(***************************************************************************)
EnvStep ==
    /\ envSteps < MaxEnvSteps
    /\ envSteps' = envSteps + 1

\* a block for the current slot is imported: fork choice will pick it, and
\* the import may already have made it the head (it recomputes the head)
ImportBlock ==
    LET b == SlotOf(time)
    IN  /\ b > head
        /\ b > pending
        /\ StatesOf(b) = {}
        /\ store' = store \cup {State(b, b)}
        /\ pending' = b
        /\ \/ head' = head
           \/ head' = b
        /\ EnvStep
        /\ UNCHANGED <<time, loopVars, is_running, workers, cacheVars,
                       lockTrace, pruneVars, lastWrite, calls>>

\* the store drops a state
Evict ==
    \E st \in store :
        /\ store' = store \ {st}
        /\ EnvStep
        /\ UNCHANGED <<time, loopVars, is_running, workers, head, pending,
                       cacheVars, lockTrace, pruneVars, lastWrite, calls>>

\* another path stores the head state advanced by one slot
OtherAdvance ==
    LET s == get_advanced_state(head, SlotOf(time), StateRootOf(head))
    IN  /\ s # None
        /\ s <= SlotOf(time)
        /\ store' = store \cup {State(head, s + 1)}
        /\ EnvStep
        /\ UNCHANGED <<time, loopVars, is_running, workers, head, pending,
                       cacheVars, lockTrace, pruneVars, lastWrite, calls>>

Environment == ImportBlock \/ Evict \/ OtherAdvance

(***************************************************************************)
(* The database the database manager works on: its genesis validators root *)
(* (None when the genesis state is missing), its anchor ("none" for no     *)
(* anchor info, "no_retain" for a state upper limit of                     *)
(* STATE_UPPER_LIMIT_NO_RETAIN, "retain" for any other) and the number of  *)
(* historic states in the freezer; and a run of prune_states.              *)
(***************************************************************************)
Database(genesis, anchor, historic) ==
    [genesis_validators_root |-> genesis, anchor |-> anchor,
     historic |-> historic]

Databases ==
    {d \in [genesis_validators_root : {None} \cup (1..Networks),
            anchor : {"none", "retain", "no_retain"},
            historic : 0..MaxHistoric] :
        d.anchor = "no_retain" => d.historic = 0}

PruneRun(pc, confirm, genesis_state, opened, result, pruned) ==
    [pc |-> pc, confirm |-> confirm, genesis_state |-> genesis_state,
     opened |-> opened, result |-> result, pruned |-> pruned]

NoPruneRun == PruneRun("idle", FALSE, None, Database(None, "none", 0), "", 0)

(***************************************************************************)
(* The timer, its workers and the node.                                    *)
(***************************************************************************)
\* the head slots the node starts with: out of distance, exactly
\* MAX_ADVANCE_DISTANCE behind the slot of the first wake-up, and current
InitHeads == {0, StartSlot + 1 - MAX_ADVANCE_DISTANCE, StartSlot}

NoWrite ==
    [current_slot |-> None, block_root |-> None, slot |-> None, env |-> None,
     call |-> None]

InitNode ==
    /\ time \in (StartSlot * QuartersPerSlot)
                    .. (StartSlot * QuartersPerSlot + QuartersPerSlot - 1)
    /\ lpc = "top"
    /\ wakeAt = time
    /\ afterSleep = "dispatch"
    /\ lastWake = "none"
    /\ is_running = Lock_new
    /\ workers = [w \in Workers |-> IdleWorker]
    /\ head \in InitHeads
    /\ pending = head
    /\ \E s \in {head, StartSlot + 1} : store = {State(head, s)}
    /\ proposer_cache = {}
    /\ shuffling_cache = {}
    /\ attester_cache = {}
    /\ lockTrace = <<>>
    /\ lastWrite = NoWrite
    /\ envSteps = 0
    /\ calls = 0

\* the node's own database, and no run of the database manager
Init ==
    /\ InitNode
    /\ db = Database(1, "none", 0)
    /\ prune = NoPruneRun

Next ==
    \/ Timer_Sleep
    \/ Timer_Wake
    \/ Tick
    \/ \E w \in Workers : AdvanceHead(w)
    \/ \E w \in Workers : Worker_Finish(w)
    \/ Environment

Spec == Init /\ [][Next]_vars

(***************************************************************************)
(* advance_head called directly, as many times as the caller likes, at any *)
(* time of the clock.                                                      *)
(***************************************************************************)
Call ==
    /\ \A w \in Workers : workers[w].pc = "idle"
    /\ calls < MaxCalls
    /\ calls' = calls + 1
    /\ workers' = [workers EXCEPT ![1] = [IdleWorker EXCEPT !.pc = "start"]]
    /\ UNCHANGED <<time, loopVars, is_running, chainVars, cacheVars,
                   lockTrace, pruneVars, lastWrite, envSteps>>

Returned ==
    /\ workers[1].pc = "done"
    /\ workers' = [workers EXCEPT ![1] = IdleWorker]
    /\ UNCHANGED <<time, loopVars, is_running, chainVars, cacheVars,
                   lockTrace, pruneVars, histVars>>

\* the clock moves to the next slot
ClockTick ==
    /\ time + QuartersPerSlot <= MaxTime
    /\ time' = time + QuartersPerSlot
    /\ UNCHANGED <<loopVars, is_running, workers, chainVars, cacheVars,
                   lockTrace, pruneVars, histVars>>

NextProc ==
    \/ Call
    \/ AdvanceHead(1)
    \/ Returned
    \/ ClockTick
    \/ Environment

InitProc ==
    /\ Init
    /\ time = StartSlot * QuartersPerSlot

SpecProc == InitProc /\ [][NextProc]_vars

(***************************************************************************)
(* A Lock used directly: any sequence of lock() and unlock() calls.        *)
(***************************************************************************)
LockCall ==
    /\ Len(lockTrace) < MaxLockCalls
    /\ LET r == Lock_lock(is_running)
       IN  /\ is_running' = r.new
           /\ lockTrace' = Append(lockTrace,
                 [op |-> "lock", ret |-> r.ret])
    /\ UNCHANGED <<time, loopVars, workers, chainVars, cacheVars, histVars,
                   pruneVars>>

UnlockCall ==
    /\ Len(lockTrace) < MaxLockCalls
    /\ is_running' = Lock_unlock(is_running)
    /\ lockTrace' = Append(lockTrace,
          [op |-> "unlock", ret |-> FALSE])
    /\ UNCHANGED <<time, loopVars, workers, chainVars, cacheVars, histVars,
                   pruneVars>>

InitLock ==
    /\ Init
    /\ time = StartSlot * QuartersPerSlot
    /\ head = 0
    /\ store = {State(0, 0)}

NextLock == LockCall \/ UnlockCall

SpecLock == InitLock /\ [][NextLock]_vars

(***************************************************************************)
(* database_manager: prune_states, run once against a database.            *)
(***************************************************************************)
\* prune_historic_states: every historic state deleted, the given genesis
\* state stored again, the anchor set to retain no states
prune_historic_states(d, genesis_state) ==
    Database(genesis_state, "no_retain", 0)

\* the test of the flag with a fault: the run never asks for --confirm
NeedsConfirmationNever(confirm) == FALSE

\* line 538: if !prune_config.confirm
NeedsConfirmation(confirm) == ~confirm

\* the comparison of the genesis states with a fault: never a mismatch
WrongNetworkNever(from_db, supplied) == FALSE

\* line 530: the genesis validators roots differ
WrongNetwork(from_db, supplied) == from_db # supplied

\* line 540: Some(anchor_info) with state_upper_limit == NO_RETAIN
AlreadyPruned(anchor) == anchor = "no_retain"

PruneReturn(res) == prune' = [prune EXCEPT !.pc = "done", !.result = res]

\* lines 512-521: HotColdDB::open
Prune_Open ==
    /\ prune.pc = "open"
    /\ \/ PruneReturn("Unable to open database")
       \/ prune' = [prune EXCEPT !.pc = "load"]
    /\ UNCHANGED <<time, loopVars, is_running, workers, chainVars, cacheVars,
                   lockTrace, histVars, db>>

\* lines 525-535: the genesis state of the database, and the network check
Prune_Load ==
    /\ prune.pc = "load"
    /\ \/ PruneReturn("Error reading genesis state")
       \/ IF db.genesis_validators_root = None
          THEN PruneReturn("Error: genesis state missing from database")
          ELSE IF WrongNetwork(db.genesis_validators_root, prune.genesis_state)
          THEN PruneReturn("Error: Wrong network")
          ELSE prune' = [prune EXCEPT !.pc = "confirm"]
    /\ UNCHANGED <<time, loopVars, is_running, workers, chainVars, cacheVars,
                   lockTrace, histVars, db>>

\* lines 537-558: without --confirm, report and return
Prune_Confirm ==
    /\ prune.pc = "confirm"
    /\ IF NeedsConfirmation(prune.confirm)
       THEN IF AlreadyPruned(db.anchor)
            THEN PruneReturn("Ok")
            ELSE PruneReturn("Error: confirmation flag required")
       ELSE prune' = [prune EXCEPT !.pc = "commit"]
    /\ UNCHANGED <<time, loopVars, is_running, workers, chainVars, cacheVars,
                   lockTrace, histVars, db>>

\* lines 560-568: the genesis state's root and prune_historic_states, which
\* on an error may have deleted some of the states
Prune_Commit ==
    /\ prune.pc = "commit"
    /\ \/ /\ PruneReturn("Error computing genesis state root")
          /\ UNCHANGED db
       \/ \E left \in 0..db.historic :
             /\ db' = [db EXCEPT !.historic = left]
             /\ prune' = [prune EXCEPT !.pc = "done", !.pruned = @ + 1,
                             !.result = "Failed to prune due to error"]
       \/ /\ db' = prune_historic_states(db, prune.genesis_state)
          /\ prune' = [prune EXCEPT !.pc = "done", !.pruned = @ + 1,
                                    !.result = "Ok"]
    /\ UNCHANGED <<time, loopVars, is_running, workers, chainVars, cacheVars,
                   lockTrace, histVars>>

\* prune_states is run once, with or without --confirm, with the genesis
\* state of some network, against some database
InitPrune ==
    /\ InitNode
    /\ time = StartSlot * QuartersPerSlot
    /\ head = 0
    /\ store = {State(0, 0)}
    /\ db \in Databases
    /\ \E confirm \in BOOLEAN, genesis_state \in 1..Networks :
          prune = PruneRun("open", confirm, genesis_state, db, "", 0)

NextPrune == Prune_Open \/ Prune_Load \/ Prune_Confirm \/ Prune_Commit

SpecPrune == InitPrune /\ [][NextPrune]_vars

(***************************************************************************)
(* The first steps of advance_head, from any pair of a head slot and a     *)
(* current slot: the head may be far behind the clock, or ahead of it.     *)
(***************************************************************************)
InitDistance ==
    /\ \E slot \in 0..MaxSlot : time = slot * QuartersPerSlot
    /\ lpc = "top"
    /\ wakeAt = time
    /\ afterSleep = "dispatch"
    /\ lastWake = "none"
    /\ is_running = Lock_new
    /\ workers = [w \in Workers |->
                    IF w = 1 THEN [IdleWorker EXCEPT !.pc = "start"]
                    ELSE IdleWorker]
    /\ head \in 0..(MaxSlot + 1)
    /\ pending = head
    /\ store = {State(head, head)}
    /\ proposer_cache = {}
    /\ shuffling_cache = {}
    /\ attester_cache = {}
    /\ lockTrace = <<>>
    /\ lastWrite = NoWrite
    /\ envSteps = 0
    /\ calls = 1
    /\ db = Database(1, "none", 0)
    /\ prune = NoPruneRun

NextDistance == AdvanceHead_Check(1) \/ AdvanceHead_ForkChoice(1)

SpecDistance == InitDistance /\ [][NextDistance]_vars

(***************************************************************************)
(* Properties.                                                             *)
(***************************************************************************)
Running(w) == workers[w].pc # "idle"

Ops(w) == {workers[w].log[i].op : i \in 1..Len(workers[w].log)}

Events(w, op) ==
    {i \in 1..Len(workers[w].log) : workers[w].log[i].op = op}

\* the operations of advance_head that change a cache or the store, and the
\* one-slot transition
Effects ==
    {"per_slot_processing", "proposer_insert", "shuffling_insert",
     "maybe_cache_state", "put_state"}

\* C1: at most one advance_head is in flight, in every reachable state of
\* the loop and its workers
C1_AtMostOneInFlight == Cardinality(InFlight) <= 1

\* a wake-up of the loop found the one worker still in flight
C1_Witness == lastWake = "overloaded" /\ Cardinality(InFlight) = 1

\* the flag before the i-th call on the Lock, read off the calls before it
FlagBefore(i) == i > 1 /\ lockTrace[i - 1].op = "lock"

TestCalls == <<"lock", "lock", "lock", "unlock", "lock", "lock">>

\* C2: lock() returns the flag's value from before the call and leaves the
\* flag set, unlock() leaves it clear; so a lock() returns false exactly when
\* it is the first call or follows an unlock(), as in the sequence
\* lock()=false, lock()=true, lock()=true, unlock(), lock()=false, lock()=true
C2_LockContract ==
    /\ \A i \in 1..Len(lockTrace) :
          lockTrace[i].op = "lock" => lockTrace[i].ret = FlagBefore(i)
    /\ is_running = FlagBefore(Len(lockTrace) + 1)
    /\ [i \in 1..Len(lockTrace) |-> lockTrace[i].op] = TestCalls
          => [i \in 1..Len(lockTrace) |-> lockTrace[i].ret]
                = <<FALSE, TRUE, TRUE, FALSE, FALSE, TRUE>>

\* the sequence of calls of tests::lock has been made
C2_Witness ==
    /\ Len(lockTrace) = Len(TestCalls)
    /\ \A i \in 1..Len(lockTrace) : lockTrace[i].op = TestCalls[i]

FailureKinds == {"BeaconChain", "BeaconState", "Store"}

\* C3: an invocation whose pre-state is at current_slot and whose calls all
\* succeed applies the transition once and persists a state at
\* current_slot + 1; no invocation persists a state at another slot
C3_AdvancesOneSlot ==
    \A w \in Workers :
        LET W == workers[w]
        IN  /\ \A i \in Events(w, "put_state") :
                  W.log[i].slot = W.current_slot + 1
            /\ Cardinality(Events(w, "per_slot_processing")) <= 1
            /\ (/\ W.pc = "done"
                /\ W.pre_slot # None
                /\ W.pre_slot = W.current_slot
                /\ W.result.kind \notin FailureKinds)
               => /\ W.result = Ok
                  /\ Cardinality(Events(w, "per_slot_processing")) = 1
                  /\ Cardinality(Events(w, "put_state")) = 1
                  /\ W.state_slot = W.current_slot + 1
                  /\ lastWrite.slot = W.current_slot + 1
                  /\ lastWrite.block_root = W.head_block_root

\* an invocation with a pre-state at current_slot has returned Ok
C3_Witness ==
    \E w \in Workers :
        /\ workers[w].pc = "done"
        /\ workers[w].pre_slot = workers[w].current_slot
        /\ workers[w].result = Ok

\* C4: an invocation whose pre-state is at current_slot + 1 makes no
\* transition, inserts into no cache, persists nothing and returns
\* StateAlreadyAdvanced with the head block root
C4_AlreadyAdvanced ==
    \A w \in Workers :
        LET W == workers[w]
        IN  (W.pre_slot # None /\ W.pre_slot = W.current_slot + 1)
            => /\ W.pc = "done"
               /\ W.result = StateAlreadyAdvanced(W.head_block_root)
               /\ \A i \in Events(w, "get_advanced_state") :
                     W.log[i].root = W.result.block_root
               /\ Ops(w) \cap Effects = {}

\* an invocation has fetched a pre-state at current_slot + 1 and returned
C4_Witness ==
    \E w \in Workers :
        /\ workers[w].pc = "done"
        /\ workers[w].pre_slot = workers[w].current_slot + 1

\* C5: an invocation whose pre-state is at neither current_slot nor
\* current_slot + 1 makes no transition, persists nothing and returns
\* BadStateSlot; no invocation advances a state by more than one slot
C5_BadStateSlot ==
    \A w \in Workers :
        LET W == workers[w]
        IN  /\ (/\ W.pre_slot # None
                /\ W.pre_slot # W.current_slot
                /\ W.pre_slot # W.current_slot + 1)
               => /\ W.pc = "done"
                  /\ W.result = BadStateSlot(W.pre_slot, W.current_slot)
                  /\ Ops(w) \cap Effects = {}
            /\ W.state_slot # None
               => W.state_slot \in {W.pre_slot, W.pre_slot + 1}
            /\ \A i \in Events(w, "put_state") : W.log[i].slot = W.pre_slot + 1

\* an invocation has fetched a pre-state behind current_slot and returned
C5_Witness ==
    \E w \in Workers :
        /\ workers[w].pc = "done"
        /\ workers[w].pre_slot # None
        /\ workers[w].pre_slot < workers[w].current_slot

\* C6: an invocation that reads head_slot + 4 < current_slot returns
\* MaxDistanceExceeded without running fork choice, fetching a pre-state,
\* inserting into a cache or persisting anything
C6_MaxDistance ==
    \A w \in Workers :
        LET W == workers[w]
        IN  (/\ W.head_slot # None
             /\ W.head_slot + MAX_ADVANCE_DISTANCE < W.current_slot)
            => /\ W.pc = "done"
               /\ W.result = MaxDistanceExceeded(W.current_slot, W.head_slot)
               /\ W.log = <<>>
               /\ W.pre_slot = None

\* an invocation has found the head out of distance and returned
C6_Witness ==
    \E w \in Workers :
        /\ workers[w].pc = "done"
        /\ workers[w].head_slot # None
        /\ workers[w].head_slot + MAX_ADVANCE_DISTANCE < workers[w].current_slot

\* the invocation of worker w has made the transition into the next epoch
Crossed(w) ==
    /\ workers[w].initial_epoch # None
    /\ workers[w].state_slot = workers[w].pre_slot + 1
    /\ epoch(workers[w].state_slot) = workers[w].initial_epoch + 1

\* the invocation of worker w has made the transition within the epoch
Stayed(w) ==
    /\ workers[w].initial_epoch # None
    /\ workers[w].state_slot = workers[w].pre_slot + 1
    /\ epoch(workers[w].state_slot) = workers[w].initial_epoch

\* the inserts of worker w's invocation carry the keys of the new epoch
PrimingKeys(w) ==
    LET W == workers[w]
    IN  /\ \A i \in Events(w, "proposer_insert") :
              /\ W.log[i].root = W.head_block_root
              /\ W.log[i].slot = W.initial_epoch + 1
              /\ <<W.initial_epoch + 1, W.head_block_root>> \in proposer_cache
        /\ \A i \in Events(w, "shuffling_insert") :
              /\ W.log[i].root = W.head_block_root
              /\ W.log[i].slot = W.initial_epoch + 2
              /\ <<W.initial_epoch + 2, W.head_block_root>> \in shuffling_cache

\* C7 as stated: every invocation that crosses an epoch boundary makes
\* exactly one insert into the proposer cache and exactly one into the
\* shuffling cache, and an invocation that does not makes none
C7_AsStated ==
    \A w \in Workers :
        /\ (workers[w].pc = "done" /\ Crossed(w))
           => /\ Cardinality(Events(w, "proposer_insert")) = 1
              /\ Cardinality(Events(w, "shuffling_insert")) = 1
              /\ PrimingKeys(w)
        /\ (workers[w].pc = "done" /\ Stayed(w))
           => /\ Events(w, "proposer_insert") = {}
              /\ Events(w, "shuffling_insert") = {}

\* C7, amended: an invocation that crosses an epoch boundary and returns Ok
\* has made exactly one insert into the proposer cache, for epoch E+1 and the
\* head block root, and exactly one into the shuffling cache, for epoch E+2
\* and the same root; an invocation that crosses and fails has made at most
\* one of each, the shuffling insert only after the proposer insert; an
\* invocation in which the epoch does not change makes no insert
C7_Priming ==
    \A w \in Workers :
        /\ Cardinality(Events(w, "proposer_insert")) <= 1
        /\ Cardinality(Events(w, "shuffling_insert")) <= 1
        /\ Events(w, "shuffling_insert") # {}
              => Events(w, "proposer_insert") # {}
        /\ PrimingKeys(w)
        /\ (workers[w].result = Ok /\ Crossed(w))
           => /\ Cardinality(Events(w, "proposer_insert")) = 1
              /\ Cardinality(Events(w, "shuffling_insert")) = 1
        /\ ~Crossed(w)
           => /\ Events(w, "proposer_insert") = {}
              /\ Events(w, "shuffling_insert") = {}

\* an invocation has crossed an epoch boundary and returned Ok
C7_Witness ==
    \E w \in Workers :
        /\ workers[w].pc = "done"
        /\ workers[w].result = Ok
        /\ Crossed(w)

\* the invocation of worker w follows, with no step of the rest of the node
\* in between, a call that persisted a state for the same slot and head
Repeats(w) ==
    /\ lastWrite # NoWrite
    /\ lastWrite.call < calls
    /\ lastWrite.env = envSteps
    /\ workers[w].current_slot = lastWrite.current_slot
    /\ workers[w].head_block_root = lastWrite.block_root

C9_UnlocksAlways ==
    /\ [](is_running => InFlight # {})
    /\ [][\A w \in Workers :
             (workers[w].pc = "done" /\ workers'[w].pc = "idle")
             => ~is_running']_vars

\* a worker spawned with the head out of distance, whose advance_head can
\* only have failed, has completed, and the flag is clear
C9_Witness ==
    /\ lastWake = "spawned"
    /\ envSteps = 0
    /\ head + MAX_ADVANCE_DISTANCE < SlotOf(time)
    /\ InFlight = {}
    /\ ~is_running

\* C10: a wake-up that finds the flag set spawns no worker and warns of the
\* overload; a worker starts only at a wake-up that finds the flag clear, so
\* the completion of a worker starts none
C10_Dropped ==
    [][/\ (lpc = "sleeping" /\ lpc' = "top" /\ afterSleep = "dispatch"
              /\ is_running)
          => /\ workers' = workers
             /\ is_running'
             /\ lastWake' = "overloaded"
       /\ (\E w \in Workers : ~Running(w) /\ Running(w)')
          => /\ lpc = "sleeping"
             /\ lpc' = "top"
             /\ afterSleep = "dispatch"
             /\ ~is_running
             /\ lastWake' = "spawned"
       /\ (\E w \in Workers : Running(w) /\ ~Running(w)')
          => /\ \A w \in Workers : Running(w)' => Running(w)
             /\ UNCHANGED <<lpc, wakeAt, afterSleep, lastWake>>]_vars

\* after a wake-up was dropped the worker has completed, and no worker is in
\* flight while the loop sleeps
C10_Witness ==
    /\ lastWake = "overloaded"
    /\ InFlight = {}
    /\ ~is_running
    /\ lpc = "sleeping"

\* C11: an invocation makes at most one put_state, as the last call it makes;
\* it returns Ok only after that write; an invocation that has failed has
\* made none; and no step of advance_head other than the successful
\* put_state changes the store
C11_SingleWrite ==
    /\ [](\A w \in Workers :
            LET W == workers[w]
            IN  /\ Cardinality(Events(w, "put_state")) <= 1
                /\ \A i \in Events(w, "put_state") :
                      i = Len(W.log) /\ W.log[i].ok /\ W.result = Ok
                /\ W.result = Ok
                   => /\ Events(w, "put_state") # {}
                      /\ lastWrite.block_root = W.head_block_root
                      /\ lastWrite.slot = W.state_slot)
    /\ [][(envSteps' = envSteps /\ store' # store)
          => \E w \in Workers :
                /\ workers[w].pc = "persist"
                /\ workers'[w].result = Ok
                /\ store' = store \cup {State(workers[w].head_block_root,
                                              workers[w].state_slot)}]_vars

\* an invocation has failed at the last step before the write, after it
\* offered the state to the attester cache, and the store is as it started
C11_Witness ==
    \E w \in Workers :
        /\ workers[w].pc = "done"
        /\ workers[w].result = ErrBeaconState
        /\ Events(w, "maybe_cache_state") # {}
        /\ lastWrite = NoWrite
        /\ envSteps = 0
        /\ Cardinality(store) = 1

InsertOps == {"proposer_insert", "shuffling_insert", "maybe_cache_state"}

Inserts(w) ==
    {i \in 1..Len(workers[w].log) : workers[w].log[i].op \in InsertOps}

\* the invocation of worker w has failed before the persistence step: it
\* returned an error without having completed the offer to the attester cache
FailedBeforePersist(w) ==
    /\ workers[w].pc = "done"
    /\ workers[w].result # Ok
    /\ Events(w, "maybe_cache_state") = {}

\* C12 as stated: an invocation that fails before the persistence step has
\* made no insert into the proposer, shuffling or attester cache
C12_AsStated ==
    \A w \in Workers : FailedBeforePersist(w) => Inserts(w) = {}

\* C12, amended: an invocation that fails before the cache-population steps
\* (up to and including the two committee-cache builds) has made no insert;
\* every insert follows the transition and both builds, and is made for the
\* head block root and the state at current_slot + 1; an invocation that
\* fails at the shuffling id or the shuffling cache's lock has made the
\* proposer insert only, one that fails at the attester cache has made no
\* attester insert
C12_NoInsertBeforePriming ==
    \A w \in Workers :
        LET W == workers[w]
            builds == Events(w, "build_committee_cache")
        IN  /\ \A i \in Inserts(w) :
                  /\ \E j \in Events(w, "per_slot_processing") :
                        j < i /\ W.log[j].ok
                  /\ Cardinality({j \in builds : j < i /\ W.log[j].ok}) = 2
                  /\ W.log[i].root = W.head_block_root
                  /\ W.state_slot = W.current_slot + 1
                  /\ W.log[i].op = "maybe_cache_state"
                        => W.log[i].slot = W.current_slot + 1
            /\ (W.pc = "done" /\ W.result # Ok /\ Cardinality(builds) < 2)
               => Inserts(w) = {}
            /\ W.result = ErrBeaconChain("ProposerCache") => Inserts(w) = {}
            /\ W.result \in {ErrBeaconChain("ShufflingId"),
                             ErrBeaconChain("AttestationCacheLockTimeout")}
               => {W.log[i].op : i \in Inserts(w)} = {"proposer_insert"}
            /\ W.result = ErrBeaconChain("AttesterCache")
               => Events(w, "maybe_cache_state") = {}

\* an invocation whose transition crossed into the next epoch has failed at
\* the second committee-cache build
C12_Witness ==
    \E w \in Workers :
        /\ workers[w].pc = "done"
        /\ workers[w].result = ErrBeaconChain("CommitteeCacheNext")
        /\ Crossed(w)

\* the loop ends its sleep and goes on to take the lock
DispatchWake ==
    lpc = "sleeping" /\ lpc' = "top" /\ afterSleep = "dispatch"

\* C13: the loop is always at its top or asleep and its next step is always
\* possible, whatever its workers did and after a clock error; a wake-up
\* that follows the completion of the last worker, whatever advance_head
\* returned, takes the lock and starts a worker
C13_LoopNeverHalts ==
    /\ [](lpc \in {"top", "sleeping"})
    /\ [](lpc = "top" => ENABLED Timer_Sleep)
    /\ []((lpc = "sleeping" /\ time >= wakeAt) => ENABLED Timer_Wake)
    /\ [][(DispatchWake /\ InFlight = {})
          => /\ lastWake' = "spawned"
             /\ is_running'
             /\ \E w \in Workers : workers'[w].pc = "start"]_vars

\* a worker that offered its state to the attester cache and then failed to
\* persist it has completed, and the next wake-up has started a worker
C13_Witness ==
    /\ lastWake = "spawned"
    /\ attester_cache # {}
    /\ lastWrite = NoWrite
    /\ \E w \in Workers : workers[w].pc = "start"

\* C14: when the clock gives no duration the loop sleeps one slot, leaving
\* the flag and the workers alone, and at the end of that sleep goes back to
\* the top of the loop without calling lock() or starting a worker
C14_ClockError ==
    [][/\ (lpc = "top" /\ lpc' = "sleeping" /\ afterSleep' = "continue")
          => /\ wakeAt' = time + QuartersPerSlot
             /\ UNCHANGED <<is_running, workers, time>>
       /\ (lpc = "sleeping" /\ lpc' = "top" /\ afterSleep = "continue")
          => /\ time = wakeAt
             /\ UNCHANGED <<is_running, workers>>
             /\ lastWake' = "clock_error"]_vars

\* the loop has come back from the sleep of a clock error while a worker was
\* in flight, and the flag is still set
C14_Witness ==
    /\ lastWake = "clock_error"
    /\ lpc = "top"
    /\ is_running
    /\ InFlight # {}

\* C15: while a worker is in flight the loop goes on: it can start its sleep
\* and end it at the trigger, and a wake-up at which a worker is in flight
\* happens at the scheduled time, reports the overload and leaves the
\* workers and the flag as they are
C15_NeverWaits ==
    /\ []((InFlight # {} /\ lpc = "top") => ENABLED Timer_Sleep)
    /\ []((InFlight # {} /\ lpc = "sleeping" /\ time >= wakeAt)
            => ENABLED Timer_Wake)
    /\ [][(DispatchWake /\ InFlight # {})
          => /\ time = wakeAt
             /\ lastWake' = "overloaded"
             /\ workers' = workers
             /\ is_running' = is_running]_vars

\* the loop has woken and reported the overload while a worker that read its
\* current slot in an earlier slot was still in flight
C15_Witness ==
    /\ lastWake = "overloaded"
    /\ \E w \in InFlight :
          /\ workers[w].current_slot # None
          /\ workers[w].current_slot < SlotOf(time)
          /\ workers[w].pc # "done"

\* three quarters of the way through a slot
AtTrigger(t) == (t % QuartersPerSlot) * 4 = 3 * QuartersPerSlot

\* C16: with a readable clock the loop sleeps to three quarters of the way
\* through the next slot; it ends that sleep at that time; and a sleep that
\* starts at the time of a wake-up ends exactly one slot later, so that the
\* loop wakes once in every slot, at that phase
C16_WakePhase ==
    [][/\ (lpc = "top" /\ lpc' = "sleeping" /\ afterSleep' = "dispatch")
          => /\ wakeAt' = time + duration_to_next_slot(time)
                               + (3 * QuartersPerSlot) \div 4
             /\ SlotOf(wakeAt') = SlotOf(time) + 1
             /\ AtTrigger(wakeAt')
             /\ AtTrigger(time) => wakeAt' = time + QuartersPerSlot
       /\ DispatchWake
          => /\ time = wakeAt
             /\ AtTrigger(time)
             /\ lastWake' \in {"spawned", "overloaded"}]_vars

\* the loop has woken at the trigger of two slots in a row: the worker it
\* started in the slot after the first one is in flight at the wake-up in
\* the slot after that
C16_Witness ==
    /\ lpc = "top"
    /\ lastWake = "overloaded"
    /\ time = (StartSlot + 2) * QuartersPerSlot + (3 * QuartersPerSlot) \div 4
    /\ \E w \in InFlight : workers[w].current_slot = StartSlot + 1

\* C17: the block root and state root passed to get_advanced_state are those
\* of the head at the time of the call, after fork choice has run, and every
\* later cache key, the write and the errors that name a block carry that
\* block root, also when it is not the head read for the distance check
C17_FreshHead ==
    /\ [](\A w \in Workers :
            LET W == workers[w]
            IN  /\ \A i \in Events(w, "get_advanced_state") :
                      \E j \in Events(w, "fork_choice") : j < i
                /\ \A i \in 1..Len(W.log) :
                      (W.log[i].op \in InsertOps \cup {"put_state"})
                      => /\ W.head_block_root # None
                         /\ W.log[i].root = W.head_block_root
                /\ W.result.kind \in {"HeadMissingFromSnapshotCache",
                                      "StateAlreadyAdvanced"}
                   => W.result.block_root = W.head_block_root
                /\ W.head_block_root # None
                   => \E i \in Events(w, "get_advanced_state") :
                         /\ W.log[i].ok
                         /\ W.log[i].root = W.head_block_root)
    /\ [][\A w \in Workers :
             (workers[w].pc = "fetch" /\ workers'[w].pc # "fetch")
             => /\ \A i \in Events(w, "get_advanced_state")' :
                      workers'[w].log[i].root = head
                /\ workers'[w].head_block_root \in {None, head}
                /\ workers'[w].pre_slot =
                      IF workers'[w].head_block_root = None THEN None
                      ELSE get_advanced_state(head, workers[w].current_slot,
                                              StateRootOf(head))]_vars

\* an invocation whose head changed between the distance check and the
\* fetch has persisted the advanced state of the new head
C17_Witness ==
    \E w \in Workers :
        /\ workers[w].pc = "done"
        /\ workers[w].result = Ok
        /\ workers[w].head_block_root # workers[w].head_slot
        /\ lastWrite.block_root = workers[w].head_block_root

\* the lookup of worker w's invocation returned no pre-state
NoPreState(w) ==
    /\ workers[w].head_block_root # None
    /\ workers[w].pre_slot = None

\* C18: an invocation whose get_advanced_state, called for the head block
\* root and the current slot, returns no state has returned
\* HeadMissingFromSnapshotCache with that block root right after the call,
\* without a transition, a cache insert or a write; no other invocation
\* returns that error
C18_HeadMissing ==
    \A w \in Workers :
        LET W == workers[w]
        IN  /\ NoPreState(w)
               => /\ W.pc = "done"
                  /\ W.result.kind = "HeadMissingFromSnapshotCache"
                  /\ W.result.block_root = W.head_block_root
                  /\ W.log[Len(W.log)] =
                        Event("get_advanced_state", W.head_block_root,
                              W.current_slot, TRUE)
                  /\ Ops(w) \cap (Effects \cup InsertOps) = {}
                  /\ W.state_slot = None
            /\ W.result.kind = "HeadMissingFromSnapshotCache" => NoPreState(w)

\* an invocation has found no state of the head block and returned
C18_Witness ==
    \E w \in Workers :
        /\ workers[w].pc = "done"
        /\ NoPreState(w)
        /\ StatesOf(workers[w].head_block_root) = {}

\* the invocation of worker w met a failure of observe_metrics or of
\* process_validator_statuses
SummaryFailed(w) ==
    \E i \in 1..Len(workers[w].log) :
        /\ workers[w].log[i].op \in {"observe_metrics",
                                     "process_validator_statuses"}
        /\ ~workers[w].log[i].ok

\* the errors of the calls advance_head makes after the summary is handled
LaterErrors ==
    {ErrBeaconChain("CommitteeCacheCurrent"), ErrBeaconChain("CommitteeCacheNext"),
     ErrBeaconChain("ProposerCache"), ErrBeaconChain("ShufflingId"),
     ErrBeaconChain("AttestationCacheLockTimeout"),
     ErrBeaconChain("AttesterCache"),
     Result("BeaconState", None, None, None, ""),
     Result("Store", None, None, None, "")}

\* C19: an invocation in which observe_metrics or process_validator_statuses
\* failed goes on to the committee caches; if it returns an error, the error
\* is that of a later call; if all later calls succeed it has primed the
\* proposer and shuffling caches, offered the state to the attester cache,
\* persisted the state at current_slot + 1 and returned Ok
C19_SummaryErrorsIsolated ==
    \A w \in Workers :
        LET W == workers[w]
        IN  SummaryFailed(w)
            => /\ W.pc \in {"build", "proposer", "shuffling", "attester",
                            "persist", "done"}
               /\ W.summary
               /\ Crossed(w)
               /\ W.pc = "done"
                  => \/ W.result \in LaterErrors
                     \/ /\ W.result.kind = "Ok"
                        /\ Cardinality(Events(w, "proposer_insert")) = 1
                        /\ Cardinality(Events(w, "shuffling_insert")) = 1
                        /\ Cardinality(Events(w, "maybe_cache_state")) = 1
                        /\ W.log[Len(W.log)] =
                              Event("put_state", W.head_block_root,
                                    W.current_slot + 1, TRUE)
                        /\ lastWrite.slot = W.current_slot + 1

\* an invocation in which both observe_metrics and process_validator_statuses
\* failed has returned Ok
C19_Witness ==
    \E w \in Workers :
        /\ workers[w].pc = "done"
        /\ workers[w].result.kind = "Ok"
        /\ \E i \in Events(w, "observe_metrics") : ~workers[w].log[i].ok
        /\ \E i \in Events(w, "process_validator_statuses") :
              ~workers[w].log[i].ok

\* the invocation of worker w could not take the shuffling cache's lock
TimedOut(w) ==
    \E i \in Events(w, "try_write_for") : ~workers[w].log[i].ok

\* C20: an invocation that could not take the shuffling cache's write lock
\* has returned AttestationCacheLockTimeout after that one attempt, which is
\* the last call it made: no shuffling insert, no offer to the attester
\* cache, no write; the step that times out changes no cache and no stored
\* state; the worker then only completes, and a worker starts again only at
\* a wake-up of the loop at its trigger
C20_LockTimeout ==
    /\ [](\A w \in Workers :
            LET W == workers[w]
            IN  /\ TimedOut(w)
                   => /\ W.pc = "done"
                      /\ W.result.kind = "BeaconChain"
                      /\ W.result.err = "AttestationCacheLockTimeout"
                      /\ Events(w, "try_write_for") = {Len(W.log)}
                      /\ Ops(w) \cap {"shuffling_insert", "maybe_cache_state",
                                      "put_state"} = {}
                /\ (W.result.kind = "BeaconChain"
                      /\ W.result.err = "AttestationCacheLockTimeout")
                   => TimedOut(w))
    /\ [][\A w \in Workers :
             workers'[w] = workers[w]
             \/ /\ (~TimedOut(w) /\ TimedOut(w)')
                   => UNCHANGED <<proposer_cache, shuffling_cache,
                                  attester_cache, store>>
                /\ TimedOut(w)
                   => /\ workers'[w] = IdleWorker
                      /\ \A v \in Workers : workers'[v].pc = "idle"
                /\ workers[w].pc = "idle"
                   => DispatchWake /\ time = wakeAt /\ AtTrigger(time)]_vars

\* an invocation started by the loop has crossed an epoch boundary, made the
\* proposer insert and failed to take the shuffling cache's lock
C20_Witness ==
    \E w \in Workers :
        /\ workers[w].pc = "done"
        /\ TimedOut(w)
        /\ Crossed(w)
        /\ Events(w, "proposer_insert") # {}
        /\ lastWake = "spawned"

\* the errors prune_states returns before it compares the genesis states
\* when the database cannot be opened or read
OpenErrors == {"Unable to open database", "Error reading genesis state"}

\* C21: a run of prune_states calls prune_historic_states at most once, and
\* only with --confirm and a database whose genesis validators root is that
\* of the given genesis state; a run that has not called it leaves the
\* database as it opened it; without --confirm a run that gets past the
\* network check returns Ok if the anchor says the states are pruned and
\* the 'confirmation flag required' error otherwise; on a mismatch of the
\* genesis states a run that could read the database returns the
\* wrong-network error
C21_PruneGuarded ==
    LET matches ==
            prune.opened.genesis_validators_root = prune.genesis_state
        missing == prune.opened.genesis_validators_root = None
    IN  prune.pc # "idle"
        => /\ prune.pruned <= 1
           /\ prune.pruned = 1 => (prune.confirm /\ matches)
           /\ prune.pruned = 0 => db = prune.opened
           /\ ~prune.confirm
              => /\ prune.pruned = 0
                 /\ prune.result = "Ok"
                       => (matches /\ prune.opened.anchor = "no_retain")
                 /\ (prune.pc = "done" /\ matches
                        /\ prune.result \notin OpenErrors)
                    => prune.result =
                          IF prune.opened.anchor = "no_retain" THEN "Ok"
                          ELSE "Error: confirmation flag required"
           /\ (prune.pc = "done" /\ ~matches /\ ~missing
                  /\ prune.result \notin OpenErrors)
              => prune.result = "Error: Wrong network"

\* a run with --confirm against a database of the same network that held
\* historic states has pruned them and returned Ok
C21_Witness ==
    /\ prune.pc = "done"
    /\ prune.result = "Ok"
    /\ prune.pruned = 1
    /\ prune.opened.historic > 0
    /\ db.historic = 0

\* the calls whose failure is logged and does not end the invocation
Observers == {"observe_metrics", "process_validator_statuses"}

\* the pairs of calls that may follow one another in an invocation, in the
\* order of the steps of advance_head
StepOrder ==
    {<<"fork_choice", "get_advanced_state">>,
     <<"get_advanced_state", "per_slot_processing">>,
     <<"per_slot_processing", "observe_metrics">>,
     <<"observe_metrics", "process_validator_statuses">>,
     <<"per_slot_processing", "build_committee_cache">>,
     <<"observe_metrics", "build_committee_cache">>,
     <<"process_validator_statuses", "build_committee_cache">>,
     <<"build_committee_cache", "build_committee_cache">>,
     <<"build_committee_cache", "proposer_insert">>,
     <<"proposer_insert", "try_write_for">>,
     <<"proposer_insert", "shuffling_insert">>,
     <<"build_committee_cache", "maybe_cache_state">>,
     <<"shuffling_insert", "maybe_cache_state">>,
     <<"maybe_cache_state", "put_state">>}

\* C22: the calls of an invocation are made in the order of the steps, each
\* right after the success of the call of the step before it; a call whose
\* failure ends the invocation is the last one; no call is made unless the
\* distance check passed, none after the fetch unless the pre-state was at
\* current_slot, no insert unless both committee caches were built, the
\* proposer insert precedes the shuffling insert, the attester offer
\* precedes the write, and Ok is returned only after the write
C22_HardGates ==
    \A w \in Workers :
        LET W == workers[w]
            n == Len(W.log)
        IN  n > 0
            => /\ W.log[1].op = "fork_choice"
               /\ W.current_slot # None
               /\ W.head_slot + MAX_ADVANCE_DISTANCE >= W.current_slot
               /\ \A i \in 2..n :
                     /\ <<W.log[i - 1].op, W.log[i].op>> \in StepOrder
                     /\ W.log[i - 1].ok \/ W.log[i - 1].op \in Observers
                     /\ W.log[i].op \in {"proposer_insert", "maybe_cache_state"}
                        => /\ W.log[i - 2].op \in {"build_committee_cache",
                                                   "proposer_insert"}
                           /\ Cardinality(Events(w, "build_committee_cache")) = 2
               /\ n > 2 => W.pre_slot = W.current_slot
               /\ W.result = Ok => W.log[n].op = "put_state"

\* an invocation that crossed an epoch boundary has made every call of every
\* step and returned Ok
C22_Witness ==
    \E w \in Workers :
        /\ workers[w].pc = "done"
        /\ workers[w].result = Ok
        /\ [i \in 1..Len(workers[w].log) |-> workers[w].log[i].op]
              = <<"fork_choice", "get_advanced_state", "per_slot_processing",
                  "observe_metrics", "process_validator_statuses",
                  "build_committee_cache", "build_committee_cache",
                  "proposer_insert", "shuffling_insert", "maybe_cache_state",
                  "put_state">>

\* C23: an invocation that has read the current slot and the head slot has
\* returned MaxDistanceExceeded, with the two slots, exactly when
\* head_slot + 4 < current_slot; otherwise it is not refused and goes on to
\* fork choice, which it runs
C23_ExactThreshold ==
    \A w \in Workers :
        LET W == workers[w]
        IN  (W.current_slot # None /\ W.head_slot # None)
            => /\ W.result.kind = "MaxDistanceExceeded"
                  <=> W.head_slot + 4 < W.current_slot
               /\ W.result.kind = "MaxDistanceExceeded"
                  => /\ W.result.current_slot = W.current_slot
                     /\ W.result.head_slot = W.head_slot
                     /\ W.log = <<>>
               /\ W.head_slot + 4 >= W.current_slot
                  => \/ W.pc = "fork_choice"
                     \/ W.pc = "fetch" /\ Events(w, "fork_choice") # {}
                     \/ W.pc = "done"
                           /\ W.result.kind = "BeaconChain"
                           /\ W.result.err = "ForkChoiceError"

\* an invocation whose head is a slot ahead of the current slot has run
\* fork choice
C23_Witness ==
    \E w \in Workers :
        /\ workers[w].current_slot # None
        /\ workers[w].head_slot = workers[w].current_slot + 1
        /\ Events(w, "fork_choice") # {}

\* C24: every insert into the proposer cache is made for the epoch after
\* that of the pre-state, E + 1, with the head block root, and the head
\* block's slot is no later than current_slot, the last slot of epoch E: the
\* head is the latest block of the epochs up to E, the decision block of
\* the proposers of E + 1; every key of the cache pairs an epoch with a
\* block of an earlier epoch
C24_DecisionBlock ==
    /\ \A w \in Workers :
          LET W == workers[w]
          IN  \A i \in Events(w, "proposer_insert") :
                 /\ W.log[i].root = W.head_block_root
                 /\ W.log[i].slot = W.initial_epoch + 1
                 /\ W.initial_epoch = epoch(W.current_slot)
                 /\ epoch(W.current_slot + 1) = W.initial_epoch + 1
                 /\ W.pre_slot = W.current_slot
                 /\ BlockSlot(W.log[i].root) <= W.current_slot
                 /\ epoch(BlockSlot(W.log[i].root)) <= W.log[i].slot - 1
    /\ \A key \in proposer_cache : epoch(BlockSlot(key[2])) < key[1]

\* an invocation has inserted into the proposer cache with a head block
\* older than the last slot of the pre-state's epoch
C24_Witness ==
    \E w \in Workers :
        /\ Events(w, "proposer_insert") # {}
        /\ BlockSlot(workers[w].head_block_root) < workers[w].current_slot

\* C25: the flag is set exactly while a spawned worker is in flight; it is
\* set only by a wake-up of the loop that found it clear and spawns a
\* worker in the same step, and cleared only by the completion of a
\* worker, in which the loop takes no part; no step of the loop clears it,
\* and a wake-up that finds it set leaves it set and spawns nothing
C25_FlagTracksWorker ==
    /\ [](is_running <=> InFlight # {})
    /\ [][/\ (~is_running /\ is_running')
             => /\ DispatchWake
                /\ lastWake' = "spawned"
                /\ \E w \in Workers : ~Running(w) /\ Running(w)'
          /\ (is_running /\ ~is_running')
             => /\ \E w \in Workers :
                      workers[w].pc = "done" /\ workers'[w].pc = "idle"
                /\ UNCHANGED <<lpc, wakeAt, afterSleep, lastWake>>
          /\ (lpc' # lpc /\ is_running)
             => /\ is_running'
                /\ workers' = workers]_vars

\* a wake-up found the flag set: the worker is still in flight and the flag
\* still set when the loop is back at its top
C25_Witness ==
    /\ lastWake = "overloaded"
    /\ lpc = "top"
    /\ is_running
    /\ InFlight # {}

\* the invocation of worker w has made the one-slot transition
Advanced(w) ==
    \E i \in Events(w, "per_slot_processing") : workers[w].log[i].ok

\* the invocation of worker w is in, or has made a call of, the steps that
\* prime the proposer and shuffling caches
Priming(w) ==
    \/ workers[w].pc \in {"proposer", "shuffling"}
    \/ Ops(w) \cap {"proposer_insert", "try_write_for", "shuffling_insert"} # {}

\* C26: an invocation that has made the transition had its pre-state at
\* current_slot and has its state at current_slot + 1, so the epoch has
\* changed exactly when current_slot + 1 is a multiple of the slots per
\* epoch, and then by one; the proposer and shuffling caches are primed only
\* in such an invocation, and an invocation for such a slot that reached the
\* attester cache has primed both
C26_PrimingAtEpochStart ==
    \A w \in Workers :
        LET W == workers[w]
            first == (W.current_slot + 1) % SlotsPerEpoch = 0
        IN  /\ Advanced(w)
               => /\ W.pre_slot = W.current_slot
                  /\ W.state_slot = W.current_slot + 1
                  /\ W.initial_epoch = W.current_slot \div SlotsPerEpoch
                  /\ (W.initial_epoch < epoch(W.state_slot)) <=> first
                  /\ (W.initial_epoch < epoch(W.state_slot))
                     => epoch(W.state_slot) = W.initial_epoch + 1
            /\ Priming(w) => (Advanced(w) /\ first)
            /\ (first /\ (W.pc \in {"attester", "persist"}
                            \/ "maybe_cache_state" \in Ops(w)))
               => /\ Events(w, "proposer_insert") # {}
                  /\ Events(w, "shuffling_insert") # {}

\* an invocation whose target slot is the first of an epoch has primed both
\* caches and gone on to the attester cache
C26_Witness ==
    \E w \in Workers :
        /\ (workers[w].current_slot + 1) % SlotsPerEpoch = 0
        /\ Events(w, "shuffling_insert") # {}
        /\ Events(w, "maybe_cache_state") # {}

\* C27: an invocation whose transition yielded an epoch summary has called
\* process_validator_statuses, right after observe_metrics and for the epoch
\* of current_slot + 1; the state after the transition is at
\* current_slot + 1, so its epoch is not before that of current_slot and the
\* recency guard holds; an invocation whose transition yielded no summary
\* has called neither
C27_MonitorNotified ==
    \A w \in Workers :
        LET W == workers[w]
        IN  /\ Advanced(w)
               => /\ W.state_slot = W.current_slot + 1
                  /\ epoch(W.state_slot) >= epoch(W.current_slot)
                  /\ epoch(W.state_slot) + VALIDATOR_MONITOR_HISTORIC_EPOCHS
                        >= epoch(W.current_slot)
                  /\ W.summary <=> Events(w, "observe_metrics") # {}
                  /\ W.summary <=> Events(w, "process_validator_statuses") # {}
            /\ \A i \in Events(w, "observe_metrics") :
                  /\ i + 1 \in Events(w, "process_validator_statuses")
                  /\ W.log[i + 1].slot = epoch(W.current_slot + 1)
            /\ \A i \in Events(w, "process_validator_statuses") :
                  /\ i > 1
                  /\ i - 1 \in Events(w, "observe_metrics")

\* a transition has yielded a summary and the monitor was notified, and the
\* invocation has gone on to the committee caches
C27_Witness ==
    \E w \in Workers :
        /\ workers[w].summary
        /\ workers[w].pc = "build"
        /\ \E i \in Events(w, "process_validator_statuses") :
              workers[w].log[i].slot = epoch(workers[w].current_slot + 1)

====
